---- MODULE Spec2Model ----
(***************************************************************************)
(* Conversation manager (ChatComponent) and request gateway (ChatService)  *)
(* of the Angular chat client.                                             *)
(*                                                                         *)
(* JavaScript strings that the code inspects character by character (the   *)
(* input buffer, message contents, reply texts, formatted times) are       *)
(* sequences of one-character strings, so '' is <<>>.  Fixed user-facing   *)
(* texts that the code only passes around are TLA+ strings.  A Date is the *)
(* number of milliseconds since the local epoch, as Date.getTime() counts. *)
(***************************************************************************)
EXTENDS Integers, Sequences, FiniteSets, TLC

VARIABLES
    messages,       \* ChatComponent.messages
    messageText,    \* ChatComponent.messageText (the input buffer)
    isTyping,       \* ChatComponent.isTyping
    isSending,      \* ChatComponent.isSending
    sessionId,      \* ChatComponent.sessionId
    initialized,    \* TRUE once Angular has run ngOnInit
    svcSessionId,   \* ChatService.sessionId
    inflight,       \* HTTP requests issued by ChatService and not yet resolved
    calls,          \* every invocation of ChatService.sendMessage, in order
    notifications,  \* every MessageService.add call, in order
    console,        \* every console.error record, in order
    uuids,          \* number of values crypto.randomUUID() has returned
    now,            \* the wall clock, milliseconds since the local epoch
    ticks,          \* number of clock advances so far
    dataPanel,      \* the DataPanelComponent and its HTTP requests
    lastEvent       \* the event whose handler ran last, with its inputs

vars == <<messages, messageText, isTyping, isSending, sessionId, initialized,
          svcSessionId, inflight, calls, notifications, console, uuids, now,
          ticks, dataPanel, lastEvent>>

---------------------------------------------------------------------------
(* Bounds of the model *)

MaxSubmits == 2     \* gateway invocations per run
MaxTicks == 1       \* clock advances per run
StartTime == 172799999   \* initial clock: day 1, 23:59:59.999

\* the most values crypto.randomUUID() returns to a reload or to a direct
\* call of generateSessionId
MaxUuids == 6

\* ten seconds, the gateway's time limit, 25 hours
ClockJumps == {10000, 30000, 90000000}

---------------------------------------------------------------------------
(* JavaScript values *)

\* the value of a missing property
Undefined == <<"undefined">>

\* obj.f
Field(obj, f) == IF f \in DOMAIN obj THEN obj[f] ELSE Undefined

EmptyObject == [f \in {} |-> <<>>]

\* null; reading a property of it throws
Null == [null |-> TRUE]

IsWhitespace(c) == c = " "

RECURSIVE TrimStart(_)
TrimStart(s) ==
    IF s # <<>> /\ IsWhitespace(Head(s)) THEN TrimStart(Tail(s)) ELSE s

RECURSIVE TrimEnd(_)
TrimEnd(s) ==
    IF s # <<>> /\ IsWhitespace(s[Len(s)])
    THEN TrimEnd(SubSeq(s, 1, Len(s) - 1))
    ELSE s

\* String.prototype.trim
Trim(s) == TrimEnd(TrimStart(s))

Digit(d) == <<"0", "1", "2", "3", "4", "5", "6", "7", "8", "9">>[d + 1]

\* Number.prototype.toString for a non-negative integer
RECURSIVE NumberToString(_)
NumberToString(n) ==
    IF n < 10 THEN <<Digit(n)>>
    ELSE NumberToString(n \div 10) \o <<Digit(n % 10)>>

\* String.prototype.padStart with a one-character filler
RECURSIVE PadStart(_, _, _)
PadStart(s, len, fill) ==
    IF Len(s) >= len THEN s ELSE PadStart(<<fill>> \o s, len, fill)

\* the n-th value returned by crypto.randomUUID()
RandomUUID(n) == <<"uuid", n>>

---------------------------------------------------------------------------
(* Dates *)

MsPerDay == 86400000
MsPerHour == 3600000
MsPerMinute == 60000

\* The time zone of the browser.  A Date is an instant, in milliseconds;
\* its local fields follow the zone's wall clock, which is set back one hour
\* at FallBackAt (02:00 of the fourth day), so that day lasts 25 hours.
FallBackAt == 3 * MsPerDay + 2 * MsPerHour
LocalTime(date) == IF date >= FallBackAt THEN date - MsPerHour ELSE date

getHours(date) == (LocalTime(date) % MsPerDay) \div MsPerHour
getMinutes(date) == (LocalTime(date) % MsPerHour) \div MsPerMinute

\* Date.prototype.toDateString: the local calendar date
toDateString(date) == LocalTime(date) \div MsPerDay

\* toLocaleDateString('en-US', {month:'short', day:'numeric', year:'numeric'})
\* for the dates of January 1970 that the bounded clock reaches
toLocaleDateString(date) == <<"Jan", toDateString(date) + 1, 1970>>

\* The successive clock reads of one handler run: n reads, the first at `now`,
\* non-decreasing.  The clock may move on by a millisecond between two reads;
\* the model follows that where a read can tell, across a minute boundary.
ClockReads(n) ==
    { [i \in 1..n |-> IF i >= k THEN now + 1 ELSE now] :
        k \in (IF ticks < MaxTicks /\ (now + 1) % MsPerMinute = 0
               THEN 2..(n + 1)
               ELSE {n + 1}) }

---------------------------------------------------------------------------
(* ChatService: the request gateway *)

DefaultErrorMessage == "An unexpected error occurred. Please try again."

TimeoutMs == 30000

\* the errors the HTTP call (or the timeout operator) can raise
TimeoutError == [name |-> "TimeoutError"]
HttpErrorResponse(status, payload) ==
    [name |-> "HttpErrorResponse", status |-> status, error |-> payload]
OtherError == [name |-> "Error"]

\* payloads of an HttpErrorResponse
ErrorEvent == [type |-> "ErrorEvent"]
ProgressEvent == [type |-> "ProgressEvent"]
JsonBody(obj) == [type |-> "json", body |-> obj]
NullBody == [type |-> "null"]
TextBody == [type |-> "text"]

\* the 4xx branch without the body's error text
ApiErrorOrDefault_Default(payload) == "Invalid request. Please try again."

\* error.error?.error || 'Invalid request. Please try again.'
ApiErrorOrDefault(payload) ==
    IF /\ payload.type = "json"
       /\ "error" \in DOMAIN payload.body
       /\ payload.body.error # ""
    THEN payload.body.error
    ELSE "Invalid request. Please try again."

\* the classification testing the ErrorEvent payload after the statuses
ClassifyError_ClientNetworkLast(error) ==
    IF error.name = "TimeoutError"
    THEN "Request timed out. Please try again."
    ELSE IF error.name = "HttpErrorResponse"
    THEN IF error.status = 0
         THEN "Unable to reach the server. Please ensure the backend is running."
         ELSE IF error.status >= 400 /\ error.status < 500
         THEN ApiErrorOrDefault(error.error)
         ELSE IF error.status >= 500
         THEN "Server error. Please try again later."
         ELSE IF error.error.type = "ErrorEvent"
         THEN "Unable to connect to the server. Please check your connection."
         ELSE DefaultErrorMessage
    ELSE DefaultErrorMessage

\* the classification passing on the raw error's own text when no branch
\* applies
ClassifyError_LeaksRaw(error) ==
    IF error.name = "TimeoutError"
    THEN "Request timed out. Please try again."
    ELSE IF error.name = "HttpErrorResponse"
    THEN IF error.error.type = "ErrorEvent"
         THEN "Unable to connect to the server. Please check your connection."
         ELSE IF error.status = 0
         THEN "Unable to reach the server. Please ensure the backend is running."
         ELSE IF error.status >= 400 /\ error.status < 500
         THEN ApiErrorOrDefault(error.error)
         ELSE IF error.status >= 500
         THEN "Server error. Please try again later."
         ELSE "Http failure response for /api/chat"
    ELSE "Error"

\* the classification testing status 0 before the ErrorEvent payload
ClassifyError_StatusFirst(error) ==
    IF error.name = "TimeoutError"
    THEN "Request timed out. Please try again."
    ELSE IF error.name = "HttpErrorResponse"
    THEN IF error.status = 0
         THEN "Unable to reach the server. Please ensure the backend is running."
         ELSE IF error.error.type = "ErrorEvent"
         THEN "Unable to connect to the server. Please check your connection."
         ELSE IF error.status >= 400 /\ error.status < 500
         THEN ApiErrorOrDefault(error.error)
         ELSE IF error.status >= 500
         THEN "Server error. Please try again later."
         ELSE DefaultErrorMessage
    ELSE DefaultErrorMessage

\* the classification with `> 500` for the server branch
ClassifyError_Above500(error) ==
    IF error.name = "TimeoutError"
    THEN "Request timed out. Please try again."
    ELSE IF error.name = "HttpErrorResponse"
    THEN IF error.error.type = "ErrorEvent"
         THEN "Unable to connect to the server. Please check your connection."
         ELSE IF error.status = 0
         THEN "Unable to reach the server. Please ensure the backend is running."
         ELSE IF error.status >= 400 /\ error.status < 500
         THEN ApiErrorOrDefault(error.error)
         ELSE IF error.status > 500
         THEN "Server error. Please try again later."
         ELSE DefaultErrorMessage
    ELSE DefaultErrorMessage

\* the catchError callback's choice of errorMessage
ClassifyError(error) ==
    IF error.name = "TimeoutError"
    THEN "Request timed out. Please try again."
    ELSE IF error.name = "HttpErrorResponse"
    THEN IF error.error.type = "ErrorEvent"
         THEN "Unable to connect to the server. Please check your connection."
         ELSE IF error.status = 0
         THEN "Unable to reach the server. Please ensure the backend is running."
         ELSE IF error.status >= 400 /\ error.status < 500
         THEN ApiErrorOrDefault(error.error)
         ELSE IF error.status >= 500
         THEN "Server error. Please try again later."
         ELSE DefaultErrorMessage
    ELSE DefaultErrorMessage

\* a request whose body carries the trimmed message
HttpRequest_Trims(message, sid, issuedAt) ==
    [ method |-> "POST",
      url |-> "/api/chat",
      contentType |-> "application/json",
      body |-> [message |-> Trim(message), session_id |-> sid],
      issuedAt |-> issuedAt ]

\* the request http.post sends for sendMessage(message, sid)
HttpRequest(message, sid, issuedAt) ==
    [ method |-> "POST",
      url |-> "/api/chat",
      contentType |-> "application/json",
      body |-> [message |-> message, session_id |-> sid],
      issuedAt |-> issuedAt ]

\* ChatService.getSessionId
getSessionId == svcSessionId

---------------------------------------------------------------------------
(* ChatComponent: the conversation manager *)

\* canSend without the isSending test
canSend_IgnoresSending == Len(Trim(messageText)) > 0

\* canSend testing the length of the untrimmed input
canSend_Untrimmed == Len(messageText) > 0 /\ ~isSending

\* canSend reading the typing flag instead of the sending flag
canSend_UsesTyping == Len(Trim(messageText)) > 0 /\ ~isTyping

\* ChatComponent.canSend
canSend == Len(Trim(messageText)) > 0 /\ ~isSending

\* formatTime without the padding
formatTime_Unpadded(date) ==
    NumberToString(getHours(date)) \o <<":">> \o NumberToString(getMinutes(date))

\* ChatComponent.formatTime
formatTime(date) ==
    PadStart(NumberToString(getHours(date)), 2, "0")
        \o <<":">> \o PadStart(NumberToString(getMinutes(date)), 2, "0")

\* ChatComponent.formatDateLabel; readToday and readNow are its two clock reads
formatDateLabel(date, readToday, readNow) ==
    LET today == toDateString(readToday)
        yesterday == toDateString(readNow - MsPerDay)
        messageDate == toDateString(date)
    IN  IF messageDate = today THEN <<"Today">>
        ELSE IF messageDate = yesterday THEN <<"Yesterday">>
        ELSE toLocaleDateString(date)

\* a date separator for the first message only
StartsNewDay_FirstOnly(msgs, message) == Len(msgs) = 0

\* addMessage's test for a date separator
StartsNewDay(msgs, message) ==
    IF Len(msgs) > 0
    THEN toDateString(msgs[Len(msgs)].timestamp) # toDateString(message.timestamp)
    ELSE TRUE

\* addMessage assigning a one-element list instead of pushing
addMessage_ClearsHistory(msgs, message, readToday, readNow) ==
    IF StartsNewDay(msgs, message)
    THEN << [ isNewDay |-> TRUE,
              dateLabel |-> formatDateLabel(message.timestamp, readToday, readNow) ]
            @@ message >>
    ELSE <<message>>

\* addMessage with unshift in place of push
addMessage_Unshift(msgs, message, readToday, readNow) ==
    IF StartsNewDay(msgs, message)
    THEN << [ isNewDay |-> TRUE,
              dateLabel |-> formatDateLabel(message.timestamp, readToday, readNow) ]
            @@ message >> \o msgs
    ELSE <<message>> \o msgs

\* addMessage refreshing the date label of every stored separator
addMessage_RelabelsAll(msgs, message, readToday, readNow) ==
    LET relabelled ==
            [ i \in 1..Len(msgs) |->
                IF "dateLabel" \in DOMAIN msgs[i]
                THEN [ msgs[i] EXCEPT
                         !.dateLabel = formatDateLabel(msgs[i].timestamp,
                                                       readToday, readNow) ]
                ELSE msgs[i] ]
    IN  IF StartsNewDay(msgs, message)
        THEN Append(relabelled,
                    [ isNewDay |-> TRUE,
                      dateLabel |-> formatDateLabel(message.timestamp,
                                                    readToday, readNow) ]
                    @@ message)
        ELSE Append(relabelled, message)

\* ChatComponent.addMessage: the list after the push
addMessage(msgs, message, readToday, readNow) ==
    IF StartsNewDay(msgs, message)
    THEN Append(msgs,
                [ isNewDay |-> TRUE,
                  dateLabel |-> formatDateLabel(message.timestamp, readToday, readNow) ]
                @@ message)
    ELSE Append(msgs, message)

\* the object literal sendMessage builds for either sender
NewMessage(sender, content, reads) ==
    [ id |-> RandomUUID(uuids + 1),
      senderId |-> sender,
      content |-> content,
      timestamp |-> reads[1],
      time |-> formatTime(reads[2]) ]

\* the last clock read a handler makes when it appends `message`
LastRead(msgs, message, reads) ==
    IF StartsNewDay(msgs, message) THEN reads[4] ELSE reads[2]

\* handleError logging the text in place of the error object
handleErrorLog_MessageOnly(error) ==
    [label |-> "Chat component error:", error |-> Field(error, "message")]

\* ChatComponent.handleError: its console.error record
handleErrorLog(error) == [label |-> "Chat component error:", error |-> error]

\* a toast that always shows the default text
ErrorToast_DefaultDetail(error) ==
    [ severity |-> "error", summary |-> "Error",
      detail |-> DefaultErrorMessage, life |-> 5000 ]

\* ChatComponent.handleError: the toast it shows
ErrorToast(error) ==
    [ severity |-> "error",
      summary |-> "Error",
      detail |-> IF "message" \in DOMAIN error /\ error.message # ""
                 THEN error.message
                 ELSE DefaultErrorMessage,
      life |-> 5000 ]

\* the first argument sendMessage hands to the gateway, given the raw input
SubmittedText_Raw(trimmedMessage) == messageText

\* the first argument sendMessage hands to the gateway
SubmittedText(trimmedMessage) == trimmedMessage

\* the input buffer left as it was
InputAfterSend_Kept == messageText

\* the input buffer after "this.messageText = ''"
InputAfterSend == <<>>

\* sendMessage without its guard
SendMessageBody_NoGuard ==
    /\ Len(calls) < MaxSubmits
    /\ \E reads \in ClockReads(4) :
          LET trimmedMessage == Trim(messageText)
              userMessage == NewMessage("user", trimmedMessage, reads)
              last == LastRead(messages, userMessage, reads)
          IN  /\ isSending' = TRUE
              /\ isTyping' = TRUE
              /\ messages' = addMessage(messages, userMessage, reads[3], reads[4])
              /\ uuids' = uuids + 1
              /\ messageText' = InputAfterSend
              /\ calls' = Append(calls,
                                 [message |-> SubmittedText(trimmedMessage),
                                  sessionId |-> sessionId])
              /\ inflight' = Append(inflight,
                                    HttpRequest(SubmittedText(trimmedMessage),
                                                sessionId, last))
              /\ now' = last
              /\ ticks' = ticks + (last - now)

\* the body of ChatComponent.sendMessage
SendMessageBody ==
    IF ~canSend
    THEN UNCHANGED <<messages, messageText, isTyping, isSending, inflight,
                     calls, uuids, now, ticks>>
    ELSE /\ Len(calls) < MaxSubmits
         /\ \E reads \in ClockReads(4) :
              LET trimmedMessage == Trim(messageText)
                  userMessage == NewMessage("user", trimmedMessage, reads)
                  last == LastRead(messages, userMessage, reads)
              IN  /\ isSending' = TRUE
                  /\ isTyping' = TRUE
                  /\ messages' = addMessage(messages, userMessage, reads[3], reads[4])
                  /\ uuids' = uuids + 1
                  /\ messageText' = InputAfterSend
                  /\ calls' = Append(calls,
                                     [message |-> SubmittedText(trimmedMessage),
                                      sessionId |-> sessionId])
                  /\ inflight' = Append(inflight,
                                        HttpRequest(SubmittedText(trimmedMessage),
                                                    sessionId, last))
                  /\ now' = last
                  /\ ticks' = ticks + (last - now)

---------------------------------------------------------------------------
(* DataPanelComponent and DataService *)

\* loadAllData runs at most this often: once from ngOnInit, then by refreshes
MaxLoads == 2

\* the four resources the panel shows, by the name of the field that holds
\* them; DataService has one GET per resource
Resources == {"products", "customers", "orders", "stats"}

\* what the server answers to the request that load k made for a resource
ServerData(resource, k) ==
    IF resource = "stats" THEN [total_orders |-> k] ELSE <<[id |-> k]>>

\* the component after construction; requests holds the subscribed GETs
\* that have neither completed nor been unsubscribed, each with the number
\* of the load that made it
DataPanelInit ==
    [ products |-> <<>>,
      customers |-> <<>>,
      orders |-> <<>>,
      stats |-> Null,
      loading |-> [r \in Resources |-> TRUE],
      requests |-> {},
      loads |-> 0,
      initialized |-> FALSE,
      destroyed |-> FALSE ]

\* DataPanelComponent.loadAllData
loadAllData(panel) ==
    [ panel EXCEPT
        !.loading = [r \in Resources |-> TRUE],
        !.loads = panel.loads + 1,
        !.requests = panel.requests \cup
                       { [resource |-> r, load |-> panel.loads + 1] :
                           r \in Resources } ]

---------------------------------------------------------------------------
(* Inputs *)

\* the texts a user can put in the input field: empty, blank, plain, padded,
\* and with a blank inside
Inputs ==
    { <<>>, <<" ">>, <<"a">>, <<" ", "a", " ">>, <<"a", " ", "a">> }

\* the bodies a 2xx response can carry
ResponseBodies ==
    { [response |-> <<"h", "i">>], EmptyObject }

\* errors a call can end with, other than by timeout: one or two of each
\* branch of the gateway's classification
AllRawErrors ==
    { HttpErrorResponse(0, ProgressEvent),
      HttpErrorResponse(0, ErrorEvent),
      HttpErrorResponse(400, JsonBody([error |-> "Invalid message format"])),
      HttpErrorResponse(404, JsonBody(EmptyObject)),
      HttpErrorResponse(500, JsonBody(EmptyObject)),
      HttpErrorResponse(302, JsonBody(EmptyObject)),
      OtherError }

\* the two of them that Spec explores together with every input text
RawErrors ==
    { HttpErrorResponse(400, JsonBody([error |-> "Invalid message format"])),
      HttpErrorResponse(500, JsonBody(EmptyObject)) }

RemoveAt(seq, i) == SubSeq(seq, 1, i - 1) \o SubSeq(seq, i + 1, Len(seq))

---------------------------------------------------------------------------
(* The state after construction of the service and the component *)

Init ==
    /\ messages = <<>>
    /\ messageText = <<>>
    /\ isTyping = FALSE
    /\ isSending = FALSE
    /\ sessionId = <<>>
    /\ initialized = FALSE
    /\ svcSessionId = RandomUUID(1)
    /\ uuids = 1
    /\ inflight = <<>>
    /\ calls = <<>>
    /\ notifications = <<>>
    /\ console = <<>>
    /\ now = StartTime
    /\ ticks = 0
    /\ dataPanel = DataPanelInit
    /\ lastEvent = [op |-> "constructor"]

---------------------------------------------------------------------------
(* Events *)

\* ngOnInit without the call of getSessionId
NgOnInit_NoSessionId ==
    /\ ~initialized
    /\ initialized' = TRUE
    /\ UNCHANGED dataPanel
    /\ lastEvent' = [op |-> "ngOnInit"]
    /\ UNCHANGED <<messages, messageText, isTyping, isSending, sessionId,
                   svcSessionId, inflight, calls, notifications, console,
                   uuids, now, ticks>>

\* ChatComponent.ngOnInit, run once by Angular before the view takes events
NgOnInit ==
    /\ ~initialized
    /\ initialized' = TRUE
    /\ sessionId' = getSessionId
    /\ UNCHANGED dataPanel
    /\ lastEvent' = [op |-> "ngOnInit"]
    /\ UNCHANGED <<messages, messageText, isTyping, isSending, svcSessionId,
                   inflight, calls, notifications, console, uuids, now, ticks>>

\* the two-way binding [(ngModel)]="messageText": the user edits the input
SetMessageText(text) ==
    /\ initialized
    /\ messageText' = text
    /\ UNCHANGED dataPanel
    /\ lastEvent' = [op |-> "setMessageText"]
    /\ UNCHANGED <<messages, isTyping, isSending, sessionId, initialized,
                   svcSessionId, inflight, calls, notifications, console,
                   uuids, now, ticks>>

\* ChatComponent.sendMessage, from the send button
SendMessage ==
    /\ initialized
    /\ SendMessageBody
    /\ UNCHANGED dataPanel
    /\ lastEvent' = [op |-> "sendMessage", text |-> messageText]
    /\ UNCHANGED <<sessionId, initialized, svcSessionId, notifications, console>>

\* onEnterKey without the test of the Shift key
OnEnterKey_IgnoresShift(shiftKey) ==
    /\ initialized
    /\ SendMessageBody
    /\ UNCHANGED dataPanel
    /\ lastEvent' = [op |-> "onEnterKey", shiftKey |-> shiftKey,
                      text |-> messageText, defaultPrevented |-> TRUE]
    /\ UNCHANGED <<sessionId, initialized, svcSessionId, notifications, console>>

\* ChatComponent.onEnterKey; defaultPrevented tells whether it has called
\* event.preventDefault()
OnEnterKey(shiftKey) ==
    /\ initialized
    /\ IF shiftKey
       THEN UNCHANGED <<messages, messageText, isTyping, isSending, inflight,
                        calls, uuids, now, ticks>>
       ELSE SendMessageBody
    /\ UNCHANGED dataPanel
    /\ lastEvent' = [op |-> "onEnterKey", shiftKey |-> shiftKey,
                      text |-> messageText, defaultPrevented |-> ~shiftKey]
    /\ UNCHANGED <<sessionId, initialized, svcSessionId, notifications, console>>

\* the next callback putting the reply ahead of the history
NextHandler_Prepends(response) ==
    \E reads \in ClockReads(4) :
        LET aiMessage == NewMessage("ai", Field(response, "message"), reads)
            last == LastRead(messages, aiMessage, reads)
        IN  /\ messages' = <<aiMessage>> \o messages
            /\ uuids' = uuids + 1
            /\ isTyping' = FALSE
            /\ isSending' = FALSE
            /\ now' = last
            /\ ticks' = ticks + (last - now)
            /\ UNCHANGED <<notifications, console>>

\* the next callback leaving the loading flags set
NextHandler_NoReset(response) ==
    \E reads \in ClockReads(4) :
        LET aiMessage == NewMessage("ai", Field(response, "message"), reads)
            last == LastRead(messages, aiMessage, reads)
        IN  /\ messages' = addMessage(messages, aiMessage, reads[3], reads[4])
            /\ uuids' = uuids + 1
            /\ now' = last
            /\ ticks' = ticks + (last - now)
            /\ UNCHANGED <<isTyping, isSending, notifications, console>>

\* the next callback hiding the typing indicator only
NextHandler_TypingOnly(response) ==
    IF response = Null
    THEN /\ uuids' = uuids + 1
         /\ UNCHANGED <<messages, isTyping, isSending, now, ticks,
                        notifications, console>>
    ELSE
    \E reads \in ClockReads(4) :
        LET aiMessage == NewMessage("ai", Field(response, "message"), reads)
            last == LastRead(messages, aiMessage, reads)
        IN  /\ messages' = addMessage(messages, aiMessage, reads[3], reads[4])
            /\ uuids' = uuids + 1
            /\ isTyping' = FALSE
            /\ now' = last
            /\ ticks' = ticks + (last - now)
            /\ UNCHANGED <<isSending, notifications, console>>

\* the subscriber's next callback.  On null the literal's `response.message`
\* throws a TypeError, after crypto.randomUUID() and before anything else;
\* the rest of the callback does not run.
NextHandler(response) ==
    IF response = Null
    THEN /\ uuids' = uuids + 1
         /\ UNCHANGED <<messages, isTyping, isSending, now, ticks,
                        notifications, console>>
    ELSE
    \E reads \in ClockReads(4) :
        LET aiMessage == NewMessage("ai", Field(response, "message"), reads)
            last == LastRead(messages, aiMessage, reads)
        IN  /\ messages' = addMessage(messages, aiMessage, reads[3], reads[4])
            /\ uuids' = uuids + 1
            /\ isTyping' = FALSE
            /\ isSending' = FALSE
            /\ now' = last
            /\ ticks' = ticks + (last - now)
            /\ UNCHANGED <<notifications, console>>

\* catchError rethrowing first and logging afterwards
ErrorHandler_LogsAfterDelivery(raw) ==
    LET error == [message |-> ClassifyError(raw)]
    IN  /\ notifications' = Append(notifications, ErrorToast(error))
        /\ console' = console \o
                        << handleErrorLog(error),
                           [label |-> "Chat service error:", error |-> raw] >>
        /\ isTyping' = FALSE
        /\ isSending' = FALSE
        /\ UNCHANGED <<messages, uuids, now, ticks>>

\* the error callback resetting the typing indicator only
ErrorHandler_KeepsSending(raw) ==
    LET error == [message |-> ClassifyError(raw)]
    IN  /\ notifications' = Append(notifications, ErrorToast(error))
        /\ console' = console \o
                        << [label |-> "Chat service error:", error |-> raw],
                           handleErrorLog(error) >>
        /\ isTyping' = FALSE
        /\ UNCHANGED <<isSending, messages, uuids, now, ticks>>

\* the catchError callback of the service followed by the subscriber's error
\* callback
ErrorHandler(raw) ==
    LET error == [message |-> ClassifyError(raw)]
    IN  /\ notifications' = Append(notifications, ErrorToast(error))
        /\ console' = console \o
                        << [label |-> "Chat service error:", error |-> raw],
                           handleErrorLog(error) >>
        /\ isTyping' = FALSE
        /\ isSending' = FALSE
        /\ UNCHANGED <<messages, uuids, now, ticks>>

\* request i completes with a 2xx response, before timeout(30000) unsubscribes
HttpSuccess(i, body) ==
    /\ i \in 1..Len(inflight)
    /\ now < inflight[i].issuedAt + TimeoutMs
    /\ inflight' = RemoveAt(inflight, i)
    /\ NextHandler(body)
    /\ UNCHANGED dataPanel
    /\ lastEvent' = [op |-> "reply", body |-> body]
    /\ UNCHANGED <<messageText, sessionId, initialized, svcSessionId, calls>>

\* a failure that puts the submitted text back into the input
HttpError_RestoresText(i, raw) ==
    /\ i \in 1..Len(inflight)
    /\ now < inflight[i].issuedAt + TimeoutMs
    /\ inflight' = RemoveAt(inflight, i)
    /\ ErrorHandler(raw)
    /\ messageText' = inflight[i].body.message
    /\ UNCHANGED dataPanel
    /\ lastEvent' = [op |-> "failure", error |-> raw]
    /\ UNCHANGED <<sessionId, initialized, svcSessionId, calls>>

\* request i fails, before timeout(30000) unsubscribes
HttpError(i, raw) ==
    /\ i \in 1..Len(inflight)
    /\ now < inflight[i].issuedAt + TimeoutMs
    /\ inflight' = RemoveAt(inflight, i)
    /\ ErrorHandler(raw)
    /\ UNCHANGED dataPanel
    /\ lastEvent' = [op |-> "failure", error |-> raw]
    /\ UNCHANGED <<messageText, sessionId, initialized, svcSessionId, calls>>

\* timeout(30000) gives up on request i
HttpTimeout(i) ==
    /\ i \in 1..Len(inflight)
    /\ now >= inflight[i].issuedAt + TimeoutMs
    /\ inflight' = RemoveAt(inflight, i)
    /\ ErrorHandler(TimeoutError)
    /\ UNCHANGED dataPanel
    /\ lastEvent' = [op |-> "failure", error |-> TimeoutError]
    /\ UNCHANGED <<messageText, sessionId, initialized, svcSessionId, calls>>

\* time passes between events
Tick(d) ==
    /\ ticks < MaxTicks
    /\ now' = now + d
    /\ ticks' = ticks + 1
    /\ UNCHANGED dataPanel
    /\ lastEvent' = [op |-> "tick"]
    /\ UNCHANGED <<messages, messageText, isTyping, isSending, sessionId,
                   initialized, svcSessionId, inflight, calls, notifications,
                   console, uuids>>

Next ==
    \/ NgOnInit
    \/ \E text \in Inputs : SetMessageText(text)
    \/ SendMessage
    \/ \E shiftKey \in BOOLEAN : OnEnterKey(shiftKey)
    \/ \E i \in 1..MaxSubmits, body \in ResponseBodies : HttpSuccess(i, body)
    \/ \E i \in 1..MaxSubmits, raw \in RawErrors : HttpError(i, raw)
    \/ \E i \in 1..MaxSubmits : HttpTimeout(i)
    \/ \E d \in ClockJumps : Tick(d)

Spec == Init /\ [][Next]_vars

\* The same component with one plain and one blank input text and every kind
\* of gateway failure.
NextFailures ==
    \/ NgOnInit
    \/ \E text \in {<<" ">>, <<"a">>} : SetMessageText(text)
    \/ SendMessage
    \/ \E i \in 1..MaxSubmits, body \in ResponseBodies : HttpSuccess(i, body)
    \/ \E i \in 1..MaxSubmits, raw \in AllRawErrors : HttpError(i, raw)
    \/ \E i \in 1..MaxSubmits : HttpTimeout(i)
    \/ Tick(TimeoutMs)

SpecFailures == Init /\ [][NextFailures]_vars


---------------------------------------------------------------------------
(* The service alone, as its unit tests drive it: sendMessage(message, sid)
   is subscribed to, and the request is answered with a body and a status,
   fails with an event, or runs into the timeout. *)

\* the most calls of the service in one run
MaxGatewayCalls == 1

GatewayStatuses == {0, 200, 302, 399, 400, 404, 499, 500, 503, 599}

GatewayPayloads ==
    { ProgressEvent, ErrorEvent, NullBody, TextBody,
      JsonBody(EmptyObject),
      JsonBody([error |-> ""]),
      JsonBody([error |-> "Invalid message format"]) }

\* every error that can reach catchError, short of the timeout
GatewayErrors ==
    { HttpErrorResponse(status, payload) :
        status \in GatewayStatuses, payload \in GatewayPayloads }
    \cup {OtherError}

\* service.sendMessage(message, sid).subscribe(...)
ServiceSendMessage(message, sid) ==
    /\ Len(calls) < MaxGatewayCalls
    /\ calls' = Append(calls, [message |-> message, sessionId |-> sid])
    /\ inflight' = Append(inflight, HttpRequest(message, sid, now))
    /\ UNCHANGED dataPanel
    /\ lastEvent' = [op |-> "serviceSendMessage"]
    /\ UNCHANGED <<messages, messageText, isTyping, isSending, sessionId,
                   initialized, svcSessionId, notifications, console, uuids,
                   now, ticks>>

\* a 2xx answer let through after timeout(30000) has run out
GatewayNext_Late(i, body) ==
    /\ i \in 1..Len(inflight)
    /\ inflight' = RemoveAt(inflight, i)
    /\ UNCHANGED dataPanel
    /\ lastEvent' = [op |-> "gatewayNext", request |-> inflight[i],
                     at |-> now, response |-> body]
    /\ UNCHANGED <<messages, messageText, isTyping, isSending, sessionId,
                   initialized, svcSessionId, calls, notifications, console,
                   uuids, now, ticks>>

\* request i is answered 2xx before timeout(30000) unsubscribes: the
\* observable emits the body
GatewayNext(i, body) ==
    /\ i \in 1..Len(inflight)
    /\ now < inflight[i].issuedAt + TimeoutMs
    /\ inflight' = RemoveAt(inflight, i)
    /\ UNCHANGED dataPanel
    /\ lastEvent' = [op |-> "gatewayNext", request |-> inflight[i],
                     at |-> now, response |-> body]
    /\ UNCHANGED <<messages, messageText, isTyping, isSending, sessionId,
                   initialized, svcSessionId, calls, notifications, console,
                   uuids, now, ticks>>

\* catchError behind a retry that sends the request once more
GatewayCatchError_Retries(i, raw) ==
    /\ inflight' = Append(RemoveAt(inflight, i),
                          [inflight[i] EXCEPT !.issuedAt = now])
    /\ console' = Append(console,
                         [label |-> "Chat service error:", error |-> raw])
    /\ UNCHANGED dataPanel
    /\ lastEvent' = [op |-> "gatewayError", request |-> inflight[i],
                     at |-> now, error |-> raw,
                     message |-> ClassifyError(raw)]
    /\ UNCHANGED <<messages, messageText, isTyping, isSending, sessionId,
                   initialized, svcSessionId, calls, notifications, uuids,
                   now, ticks>>

\* catchError: log the raw error, fail with new Error(errorMessage)
GatewayCatchError(i, raw) ==
    /\ inflight' = RemoveAt(inflight, i)
    /\ console' = Append(console,
                         [label |-> "Chat service error:", error |-> raw])
    /\ UNCHANGED dataPanel
    /\ lastEvent' = [op |-> "gatewayError", request |-> inflight[i],
                     at |-> now, error |-> raw,
                     message |-> ClassifyError(raw)]
    /\ UNCHANGED <<messages, messageText, isTyping, isSending, sessionId,
                   initialized, svcSessionId, calls, notifications, uuids,
                   now, ticks>>

\* request i fails with raw before timeout(30000) unsubscribes
GatewayError(i, raw) ==
    /\ i \in 1..Len(inflight)
    /\ now < inflight[i].issuedAt + TimeoutMs
    /\ GatewayCatchError(i, raw)

\* timeout(30000) gives up on request i
GatewayTimeout(i) ==
    /\ i \in 1..Len(inflight)
    /\ now >= inflight[i].issuedAt + TimeoutMs
    /\ GatewayCatchError(i, TimeoutError)

NextGateway ==
    \/ \E message \in {<<"a">>, <<" ", "a", " ">>},
          sid \in {svcSessionId, <<"s">>} : ServiceSendMessage(message, sid)
    \/ \E i \in 1..MaxGatewayCalls, body \in ResponseBodies : GatewayNext(i, body)
    \/ \E i \in 1..MaxGatewayCalls, raw \in GatewayErrors : GatewayError(i, raw)
    \/ \E i \in 1..MaxGatewayCalls : GatewayTimeout(i)
    \/ \E d \in {10000, TimeoutMs} : Tick(d)

SpecGateway == Init /\ [][NextGateway]_vars

---------------------------------------------------------------------------
(* The service's session identifier: the public methods of ChatService
   called in any order on one instance. *)

\* a call of getSessionId()
CallGetSessionId ==
    /\ UNCHANGED dataPanel
    /\ lastEvent' = [op |-> "getSessionId", result |-> getSessionId]
    /\ UNCHANGED <<messages, messageText, isTyping, isSending, sessionId,
                   initialized, svcSessionId, inflight, calls, notifications,
                   console, uuids, now, ticks>>

\* generateSessionId storing what it generates
CallGenerateSessionId_Stores ==
    /\ uuids < MaxUuids
    /\ uuids' = uuids + 1
    /\ svcSessionId' = RandomUUID(uuids + 1)
    /\ UNCHANGED dataPanel
    /\ lastEvent' = [op |-> "generateSessionId", result |-> RandomUUID(uuids + 1)]
    /\ UNCHANGED <<messages, messageText, isTyping, isSending, sessionId,
                   initialized, inflight, calls, notifications, console, now,
                   ticks>>

\* a call of generateSessionId(): it returns crypto.randomUUID()
CallGenerateSessionId ==
    /\ uuids < MaxUuids
    /\ uuids' = uuids + 1
    /\ UNCHANGED dataPanel
    /\ lastEvent' = [op |-> "generateSessionId", result |-> RandomUUID(uuids + 1)]
    /\ UNCHANGED <<messages, messageText, isTyping, isSending, sessionId,
                   initialized, svcSessionId, inflight, calls, notifications,
                   console, now, ticks>>

\* sendMessage is called with the stored identifier or with the one
\* generated last
NextSession ==
    \/ CallGetSessionId
    \/ CallGenerateSessionId
    \/ \E message \in {<<"a">>}, sid \in {svcSessionId, RandomUUID(uuids)} :
          ServiceSendMessage(message, sid)
    \/ \E body \in ResponseBodies : GatewayNext(1, body)
    \/ \E raw \in RawErrors : GatewayError(1, raw)

SpecSession == Init /\ [][NextSession]_vars

---------------------------------------------------------------------------
(* The data panel: Angular runs ngOnInit, the user presses the refresh
   button, the GET requests are answered one by one in any order, and the
   component is destroyed. *)

chatVars == <<messages, messageText, isTyping, isSending, sessionId,
              initialized, svcSessionId, inflight, calls, notifications,
              console, uuids, now, ticks>>

\* DataPanelComponent.ngOnInit
DataPanelNgOnInit ==
    /\ ~dataPanel.initialized
    /\ dataPanel' = [loadAllData(dataPanel) EXCEPT !.initialized = TRUE]
    /\ lastEvent' = [op |-> "dataPanelNgOnInit"]
    /\ UNCHANGED chatVars

\* DataPanelComponent.refreshData, from the refresh button
RefreshData ==
    /\ dataPanel.initialized /\ ~dataPanel.destroyed
    /\ dataPanel.loads < MaxLoads
    /\ dataPanel' = loadAllData(dataPanel)
    /\ lastEvent' = [op |-> "refreshData"]
    /\ UNCHANGED chatVars

\* the GET of a request succeeds: the subscriber's next callback
DataPanelNext(request) ==
    /\ request \in dataPanel.requests
    /\ dataPanel' =
          [ dataPanel EXCEPT
              ![request.resource] = ServerData(request.resource, request.load),
              !.loading[request.resource] = FALSE,
              !.requests = dataPanel.requests \ {request} ]
    /\ lastEvent' = [op |-> "dataPanelNext"]
    /\ UNCHANGED chatVars

\* the GET of a request fails: the subscriber's error callback
DataPanelError(request) ==
    /\ request \in dataPanel.requests
    /\ dataPanel' =
          [ dataPanel EXCEPT
              !.loading[request.resource] = FALSE,
              !.requests = dataPanel.requests \ {request} ]
    /\ lastEvent' = [op |-> "dataPanelError"]
    /\ UNCHANGED chatVars

\* DataPanelComponent.ngOnDestroy: every subscription is unsubscribed
DataPanelNgOnDestroy ==
    /\ dataPanel.initialized /\ ~dataPanel.destroyed
    /\ dataPanel' = [dataPanel EXCEPT !.destroyed = TRUE, !.requests = {}]
    /\ lastEvent' = [op |-> "dataPanelNgOnDestroy"]
    /\ UNCHANGED chatVars

\* every request a load can make
AllRequests ==
    { [resource |-> r, load |-> k] : r \in Resources, k \in 1..MaxLoads }

NextDataPanel ==
    \/ DataPanelNgOnInit
    \/ RefreshData
    \/ \E request \in AllRequests : DataPanelNext(request)
    \/ \E request \in AllRequests : DataPanelError(request)
    \/ DataPanelNgOnDestroy

SpecDataPanel == Init /\ [][NextDataPanel]_vars

---------------------------------------------------------------------------
(* Progress.  The component with every outcome a call can have: a 2xx answer
   whose body is an object or, for an empty body, null; a failure; the
   timeout.  An outstanding call does get one of them. *)

\* what HttpClient emits for a 2xx answer
AnyResponseBodies == ResponseBodies \cup {Null}

\* request i gets its outcome
Resolve(i) ==
    \/ \E body \in AnyResponseBodies : HttpSuccess(i, body)
    \/ \E raw \in RawErrors : HttpError(i, raw)
    \/ HttpTimeout(i)

NextProgress ==
    \/ NgOnInit
    \/ \E text \in {<<" ">>, <<"a">>} : SetMessageText(text)
    \/ SendMessage
    \/ \E i \in 1..MaxSubmits : Resolve(i)
    \/ \E d \in {10000, TimeoutMs} : Tick(d)

SpecProgress ==
    /\ Init
    /\ [][NextProgress]_vars
    /\ \A i \in 1..MaxSubmits : WF_vars(Resolve(i))

---------------------------------------------------------------------------
(* Instances.  The application can be started again (a page reload): a new
   root injector, hence a new ChatService and a new ChatComponent.  And a
   ChatComponent can be created again under the injector that is there,
   which hands it the ChatService that is there.  The variables describe the
   latest instance of each. *)

\* a reload that restores the session identifier of the page before
Reload_KeepsSession ==
    /\ initialized
    /\ uuids < MaxUuids
    /\ svcSessionId' = svcSessionId
    /\ uuids' = uuids + 1
    /\ sessionId' = svcSessionId'
    /\ messages' = <<>>
    /\ messageText' = <<>>
    /\ isTyping' = FALSE
    /\ isSending' = FALSE
    /\ inflight' = <<>>
    /\ calls' = <<>>
    /\ notifications' = <<>>
    /\ console' = <<>>
    /\ UNCHANGED dataPanel
    /\ lastEvent' = [op |-> "reload"]
    /\ UNCHANGED <<initialized, now, ticks>>

\* the application starts again: ChatService's constructor, then a
\* ChatComponent with its initial fields and its ngOnInit
Reload ==
    /\ initialized
    /\ uuids < MaxUuids
    /\ svcSessionId' = RandomUUID(uuids + 1)
    /\ uuids' = uuids + 1
    /\ sessionId' = svcSessionId'
    /\ messages' = <<>>
    /\ messageText' = <<>>
    /\ isTyping' = FALSE
    /\ isSending' = FALSE
    /\ inflight' = <<>>
    /\ calls' = <<>>
    /\ notifications' = <<>>
    /\ console' = <<>>
    /\ UNCHANGED dataPanel
    /\ lastEvent' = [op |-> "reload"]
    /\ UNCHANGED <<initialized, now, ticks>>

\* another ChatComponent is created while no call is outstanding: its
\* initial fields, then ngOnInit reading the root ChatService
NewComponent ==
    /\ initialized
    /\ inflight = <<>>
    /\ sessionId' = getSessionId
    /\ messages' = <<>>
    /\ messageText' = <<>>
    /\ isTyping' = FALSE
    /\ isSending' = FALSE
    /\ UNCHANGED dataPanel
    /\ lastEvent' = [op |-> "newComponent"]
    /\ UNCHANGED <<initialized, svcSessionId, inflight, calls, notifications,
                   console, uuids, now, ticks>>

NextInstances ==
    \/ NgOnInit
    \/ Reload
    \/ NewComponent
    \/ \E text \in {<<"a">>, <<" ">>} : SetMessageText(text)
    \/ SendMessage
    \/ \E body \in ResponseBodies : HttpSuccess(1, body)
    \/ \E raw \in RawErrors : HttpError(1, raw)

SpecInstances == Init /\ [][NextInstances]_vars

---------------------------------------------------------------------------
(* The component as its unit tests drive it: the public fields are assigned *)
(* directly and single methods are called on the result.                    *)

\* one stored message, for fixtures with a non-empty history
FixtureMessage ==
    [ id |-> RandomUUID(2), senderId |-> "user", content |-> <<"a">>,
      timestamp |-> StartTime, time |-> formatTime(StartTime),
      isNewDay |-> TRUE, dateLabel |-> <<"Today">> ]

InitUnit ==
    /\ messages \in {<<>>, <<FixtureMessage>>}
    /\ messageText \in Inputs
    /\ isTyping \in BOOLEAN
    /\ isSending \in BOOLEAN
    /\ sessionId = RandomUUID(1)
    /\ initialized = TRUE
    /\ svcSessionId = RandomUUID(1)
    /\ uuids = 2
    /\ inflight = <<>>
    /\ calls = <<>>
    /\ notifications = <<>>
    /\ console = <<>>
    /\ now = StartTime
    /\ ticks = 0
    /\ dataPanel = DataPanelInit
    /\ lastEvent = [op |-> "fixture"]

\* a call of canSend(), as the template's [disabled] binding and the tests make
CallCanSend ==
    /\ UNCHANGED dataPanel
    /\ lastEvent' = [op |-> "canSend", result |-> canSend]
    /\ UNCHANGED <<messages, messageText, isTyping, isSending, sessionId,
                   initialized, svcSessionId, inflight, calls, notifications,
                   console, uuids, now, ticks>>

\* the longest list the unit calls of addMessage build
MaxUnitMessages == 2

\* the optional fields a caller's Message object may already carry
CarriedFields ==
    { EmptyObject,
      [isNewDay |-> FALSE],
      [isNewDay |-> TRUE, dateLabel |-> <<"Today">>] }

\* a call of addMessage() with an object the caller built, dated now or
\* 86400000 ms ago as in the tests
CallAddMessage ==
    /\ Len(messages) < MaxUnitMessages
    /\ \E sender \in {"user", "ai"}, timestamp \in {now - MsPerDay, now},
          carried \in CarriedFields, reads \in ClockReads(2) :
          LET message ==
                  carried @@
                  [ id |-> RandomUUID(uuids + 1), senderId |-> sender,
                    content |-> <<"a">>, timestamp |-> timestamp,
                    time |-> formatTime(timestamp) ]
              last == IF StartsNewDay(messages, message) THEN reads[2] ELSE now
          IN  /\ messages' = addMessage(messages, message, reads[1], reads[2])
              /\ uuids' = uuids + 1
              /\ now' = last
              /\ ticks' = ticks + (last - now)
              /\ UNCHANGED dataPanel
              /\ lastEvent' = [op |-> "addMessage", message |-> message]
    /\ UNCHANGED <<messageText, isTyping, isSending, sessionId, initialized,
                   svcSessionId, inflight, calls, notifications, console>>

\* the most toasts the unit calls of handleError raise
MaxToasts == 1

\* the error objects handed to handleError: with a text, without one, with
\* an empty one
HandleErrorInputs == { [message |-> "Test error"], EmptyObject, [message |-> ""] }

\* a call of handleError(error)
CallHandleError(error) ==
    /\ Len(notifications) < MaxToasts
    /\ notifications' = Append(notifications, ErrorToast(error))
    /\ console' = Append(console, handleErrorLog(error))
    /\ UNCHANGED dataPanel
    /\ lastEvent' = [op |-> "handleError", error |-> error]
    /\ UNCHANGED <<messages, messageText, isTyping, isSending, sessionId,
                   initialized, svcSessionId, inflight, calls, uuids, now,
                   ticks>>

NextUnit ==
    \/ \E text \in Inputs : SetMessageText(text)
    \/ CallCanSend
    \/ CallAddMessage
    \/ \E error \in HandleErrorInputs : CallHandleError(error)

SpecUnit == InitUnit /\ [][NextUnit]_vars

---------------------------------------------------------------------------
(* The formatting functions alone: formatTime(date) and formatDateLabel(date)
   called on a component whose clock stands at one of a few instants, with a
   Date argument prepared beforehand. *)

\* the instants of the calls: the last millisecond of a day, a noon, and
\* half an hour before the end of the 25-hour day
FormatClocks ==
    { StartTime,
      2 * MsPerDay + 12 * MsPerHour,
      4 * MsPerDay + 30 * MsPerMinute }

\* the Date arguments: five days, every hour, a few minutes and seconds
FormatDates ==
    { d * MsPerDay + h * MsPerHour + m * MsPerMinute + ms :
        d \in 0..4, h \in 0..23, m \in {0, 3, 5, 30, 59}, ms \in {0, 59999} }

InitFormat ==
    /\ messages = <<>>
    /\ messageText = <<>>
    /\ isTyping = FALSE
    /\ isSending = FALSE
    /\ sessionId = RandomUUID(1)
    /\ initialized = TRUE
    /\ svcSessionId = RandomUUID(1)
    /\ uuids = 1
    /\ inflight = <<>>
    /\ calls = <<>>
    /\ notifications = <<>>
    /\ console = <<>>
    /\ now \in FormatClocks
    /\ ticks = 0
    /\ dataPanel = DataPanelInit
    /\ lastEvent \in { [op |-> "fixture", date |-> date] :
                          date \in FormatDates \cup {now, now - MsPerDay} }

\* a call of formatTime(date)
CallFormatTime(date) ==
    /\ UNCHANGED dataPanel
    /\ lastEvent' = [op |-> "formatTime", date |-> date,
                     result |-> formatTime(date)]
    /\ UNCHANGED <<messages, messageText, isTyping, isSending, sessionId,
                   initialized, svcSessionId, inflight, calls, notifications,
                   console, uuids, now, ticks>>

\* a call of formatDateLabel(date), made at `now`
CallFormatDateLabel(date) ==
    /\ \E reads \in ClockReads(2) :
          /\ UNCHANGED dataPanel
          /\ lastEvent' = [op |-> "formatDateLabel", date |-> date, at |-> now,
                           result |-> formatDateLabel(date, reads[1], reads[2])]
          /\ now' = reads[2]
          /\ ticks' = ticks + (reads[2] - now)
    /\ UNCHANGED <<messages, messageText, isTyping, isSending, sessionId,
                   initialized, svcSessionId, inflight, calls, notifications,
                   console, uuids>>

NextFormat ==
    \/ CallFormatTime(lastEvent.date)
    \/ CallFormatDateLabel(lastEvent.date)

SpecFormat == InitFormat /\ [][NextFormat]_vars

---------------------------------------------------------------------------
(* Properties *)

\* a text with nothing but whitespace in it
IsBlank(s) == \A i \in 1..Len(s) : s[i] = " "

\* s from its first to its last non-whitespace character
Stripped(s) ==
    IF IsBlank(s) THEN <<>>
    ELSE LET first == CHOOSE i \in 1..Len(s) :
                        s[i] # " " /\ \A j \in 1..(i - 1) : s[j] = " "
             last == CHOOSE i \in 1..Len(s) :
                        s[i] # " " /\ \A j \in (i + 1)..Len(s) : s[j] = " "
         IN  SubSeq(s, first, last)

IsSendEvent(e) == e.op = "sendMessage" \/ (e.op = "onEnterKey" /\ ~e.shiftKey)

\* C1: at most one gateway call is outstanding at any time, and a
\* sendMessage() or Enter issued while isSending is true issues no gateway
\* call and appends no message.
C1_NoOverlappingSubmissions ==
    [][ /\ Len(inflight') <= 1
        /\ (isSending /\ IsSendEvent(lastEvent'))
              => (calls' = calls /\ inflight' = inflight /\ messages' = messages)
      ]_vars

\* a sendMessage() with a non-blank input has just been refused during a call
C1_Witness ==
    /\ lastEvent.op = "sendMessage"
    /\ ~IsBlank(lastEvent.text)
    /\ isSending
    /\ Len(inflight) = 1
    /\ messageText = lastEvent.text

\* C2: isSending is true exactly while a gateway call is outstanding: false
\* before the submission, true from the accepted sendMessage() until the call
\* resolves, and false again right after a reply as well as after a failure.
C2_SendingWhilePending ==
    /\ isSending <=> (inflight # <<>>)
    /\ lastEvent.op \in {"reply", "failure"} => ~isSending
    /\ (IsSendEvent(lastEvent) /\ ~IsBlank(lastEvent.text)) => isSending

\* a second submission is pending, after a first one that failed, and the
\* user has typed in between
C2_Witness ==
    /\ isSending
    /\ Len(calls) = 2
    /\ Len(notifications) = 1
    /\ lastEvent.op = "setMessageText"

\* C3: when a gateway call fails, no message is appended, the user message
\* of that submission is still in the history, and exactly one notification
\* is raised, its detail being the message the gateway classified the failure
\* as.
C3_FailureLeavesHistory ==
    [][ lastEvent'.op = "failure" =>
          /\ messages' = messages
          /\ \E i \in 1..Len(messages') :
                /\ messages'[i].senderId = "user"
                /\ messages'[i].content = inflight[1].body.message
          /\ Len(notifications') = Len(notifications) + 1
          /\ SubSeq(notifications', 1, Len(notifications)) = notifications
          /\ notifications'[Len(notifications')].detail
                = ClassifyError(lastEvent'.error)
      ]_vars

\* a submission has just failed with the server's own error text
C3_Witness ==
    /\ lastEvent.op = "failure"
    /\ lastEvent.error =
          HttpErrorResponse(400, JsonBody([error |-> "Invalid message format"]))
    /\ Len(messages) = 1
    /\ messages[1].senderId = "user"
    /\ Len(notifications) = 1
    /\ notifications[1].detail = "Invalid message format"

\* C4: when the gateway delivers a reply whose response field is t, exactly
\* one message is appended, it is an 'ai' message, and its content is t.
C4_ReplyContent ==
    [][ (lastEvent'.op = "reply" /\ "response" \in DOMAIN lastEvent'.body) =>
          /\ Len(messages') = Len(messages) + 1
          /\ SubSeq(messages', 1, Len(messages)) = messages
          /\ messages'[Len(messages')].senderId = "ai"
          /\ messages'[Len(messages')].content = lastEvent'.body.response
      ]_vars

\* C5: a failure of any category leaves isSending and isTyping false, and a
\* sendMessage() with a non-blank input made after a failure, with no call
\* outstanding, is accepted and issues a new gateway call.
C5_RetryAfterFailure ==
    [][ /\ lastEvent'.op = "failure" => (~isSending' /\ ~isTyping')
        /\ ( /\ IsSendEvent(lastEvent')
             /\ notifications # <<>>
             /\ inflight = <<>>
             /\ ~IsBlank(messageText) )
           => /\ Len(calls') = Len(calls) + 1
              /\ Len(inflight') = 1
              /\ inflight'[1].body.message = calls'[Len(calls')].message
      ]_vars

\* a second submission was accepted after the first one failed with an error
\* of no known kind
C5_Witness ==
    /\ lastEvent.op = "sendMessage"
    /\ Len(calls) = 2
    /\ Len(inflight) = 1
    /\ Len(notifications) = 1
    /\ console[1].error = OtherError
    /\ isSending

\* C6: with an empty or all-whitespace input, canSend() is false and
\* sendMessage() changes nothing: no gateway call, no message, and isSending,
\* isTyping and messageText as before.
C6_BlankInputIsNoOp ==
    [][ /\ IsBlank(messageText') => ~canSend'
        /\ (IsBlank(messageText) /\ IsSendEvent(lastEvent'))
              => UNCHANGED <<messages, messageText, isTyping, isSending,
                             inflight, calls>>
      ]_vars

\* sendMessage() has just run on a whitespace-only input, with no call made
C6_Witness ==
    /\ lastEvent.op = "sendMessage"
    /\ lastEvent.text = <<" ">>
    /\ messageText = <<" ">>
    /\ ~isSending
    /\ calls = <<>>
    /\ messages = <<>>

\* C7: canSend() is true exactly when the input has a non-whitespace
\* character and isSending is false, whatever isTyping and the history are.
C7_CanSendIff ==
    lastEvent.op = "canSend" =>
        (lastEvent.result <=> (~IsBlank(messageText) /\ ~isSending))

\* canSend() has answered true with the typing flag set and a history
C7_Witness ==
    /\ lastEvent.op = "canSend"
    /\ lastEvent.result
    /\ isTyping
    /\ messages # <<>>

\* C8: an accepted submission of input s appends a 'user' message whose
\* content is s without its leading and trailing whitespace, and calls the
\* gateway with that same text.
C8_TrimmedOnBothPaths ==
    [][ (IsSendEvent(lastEvent') /\ calls' # calls) =>
          /\ Len(messages') = Len(messages) + 1
          /\ messages'[Len(messages')].senderId = "user"
          /\ messages'[Len(messages')].content = Stripped(messageText)
          /\ calls' = Append(calls, [message |-> Stripped(messageText),
                                     sessionId |-> sessionId])
          /\ inflight'[Len(inflight')].body.message = Stripped(messageText)
      ]_vars

\* the padded input " a " has been submitted as "a"
C8_Witness ==
    /\ lastEvent.op = "sendMessage"
    /\ lastEvent.text = <<" ", "a", " ">>
    /\ Len(calls) = 1
    /\ calls[1].message = <<"a">>
    /\ messages[1].content = <<"a">>
    /\ inflight[1].body.message = <<"a">>

\* C9, as stated: after any sendMessage() on a non-blank input the input
\* buffer is empty.
C9_InputClearedAlways ==
    (IsSendEvent(lastEvent) /\ ~IsBlank(lastEvent.text)) => messageText = <<>>

\* C9, amended: a sendMessage() on a non-blank input made while isSending is
\* false leaves the input buffer empty on return, before the call resolves.
C9_InputClearedWhenAccepted ==
    [][ (IsSendEvent(lastEvent') /\ ~IsBlank(messageText) /\ ~isSending)
            => (messageText' = <<>> /\ Len(inflight') = Len(inflight) + 1)
      ]_vars

\* a non-blank input has just been submitted and the buffer is empty while
\* the call is pending
C9_Witness ==
    /\ lastEvent.op = "sendMessage"
    /\ ~IsBlank(lastEvent.text)
    /\ messageText = <<>>
    /\ Len(inflight) = 1
    /\ Len(calls) = 2

\* C10: every gateway invocation and every request on the wire carries the
\* session identifier that the service generated in its constructor, never
\* the empty string.
C10_OneSessionId ==
    /\ \A i \in 1..Len(calls) :
          /\ calls[i].sessionId = svcSessionId
          /\ calls[i].sessionId = RandomUUID(1)
          /\ calls[i].sessionId # <<>>
    /\ \A i \in 1..Len(inflight) : inflight[i].body.session_id = RandomUUID(1)

\* two submissions have been made
C10_Witness ==
    /\ Len(calls) = 2
    /\ calls[1].sessionId = calls[2].sessionId
    /\ Len(inflight) = 1

\* the index in msgs of the n-th 'user' message (0 when there is none)
RECURSIVE NthUserIndex(_, _, _)
NthUserIndex(msgs, n, from) ==
    IF from > Len(msgs) THEN 0
    ELSE IF msgs[from].senderId = "user"
         THEN IF n = 1 THEN from ELSE NthUserIndex(msgs, n - 1, from + 1)
         ELSE NthUserIndex(msgs, n, from + 1)

\* C11: the 'user' message of a submission is in the history when its call
\* is issued, the reply is handled while that call is outstanding, and the
\* 'ai' message it produces is placed after that 'user' message; no 'ai'
\* message ever stands ahead of every 'user' message.
C11_ReplyAfterItsUserMessage ==
    [][ /\ (calls' # calls) =>
              /\ messages'[Len(messages')].senderId = "user"
              /\ NthUserIndex(messages', Len(calls'), 1) = Len(messages')
              /\ inflight' = Append(inflight, inflight'[Len(inflight')])
        /\ (lastEvent'.op = "reply") =>
              LET k == NthUserIndex(messages, Len(calls), 1)
              IN  /\ inflight # <<>>
                  /\ k > 0
                  /\ messages[k].content = inflight[1].body.message
                  /\ NthUserIndex(messages', Len(calls), 1) = k
                  /\ \E j \in (k + 1)..Len(messages') :
                        /\ messages'[j].senderId = "ai"
                        /\ messages'[j].id = RandomUUID(uuids')
        /\ \A j \in 1..Len(messages') :
              messages'[j].senderId = "ai" =>
                  \E i \in 1..(j - 1) : messages'[i].senderId = "user"
      ]_vars

\* a reply has just been placed behind the second submission's message
C11_Witness ==
    /\ lastEvent.op = "reply"
    /\ Len(calls) = 2
    /\ Len(messages) = 3
    /\ messages[2].senderId = "user"
    /\ messages[3].senderId = "ai"

\* C12: every step leaves the messages it found in place, unchanged and in
\* the same order, and adds at most one message, at the end.
C12_AppendOnly ==
    [][ /\ Len(messages') \in {Len(messages), Len(messages) + 1}
        /\ SubSeq(messages', 1, Len(messages)) = messages
      ]_vars

\* a history grown over a failure and a reply
C12_Witness ==
    /\ Len(messages) = 3
    /\ Len(notifications) = 1
    /\ messages[3].senderId = "ai"

\* C13: read in insertion order, the messages are sorted by timestamp.
C13_ChronologicalOrder ==
    \A i \in 1..Len(messages) : \A j \in i..Len(messages) :
        messages[i].timestamp <= messages[j].timestamp

\* a reply stamped later than the message it answers
C13_Witness ==
    /\ Len(messages) >= 2
    /\ messages[1].senderId = "user"
    /\ messages[2].senderId = "ai"
    /\ messages[1].timestamp < messages[2].timestamp

\* C14: a stored message carries isNewDay = true and a non-empty dateLabel
\* exactly when it is the first one or its local calendar date differs from
\* its predecessor's; otherwise it has neither field.
C14_DayBoundaries ==
    \A i \in 1..Len(messages) :
        LET m == messages[i]
            boundary ==
                \/ i = 1
                \/ toDateString(m.timestamp)
                      # toDateString(messages[i - 1].timestamp)
        IN  IF boundary
            THEN /\ "isNewDay" \in DOMAIN m
                 /\ m.isNewDay = TRUE
                 /\ "dateLabel" \in DOMAIN m
                 /\ m.dateLabel # <<>>
            ELSE /\ "isNewDay" \notin DOMAIN m
                 /\ "dateLabel" \notin DOMAIN m

\* two submissions 25 hours apart: the second one starts a new day
C14_Witness ==
    /\ Len(messages) = 2
    /\ messages[2].senderId = "user"
    /\ messages[2].timestamp - messages[1].timestamp >= 90000000
    /\ "isNewDay" \in DOMAIN messages[2]
    /\ messages[2].isNewDay

\* C15: a message added on the same local date as the last stored one is
\* stored without a day boundary (isNewDay absent or false, no dateLabel),
\* whatever the caller's object carried.
C15_SameDayHasNoSeparator ==
    (/\ lastEvent.op = "addMessage"
     /\ Len(messages) >= 2
     /\ toDateString(messages[Len(messages)].timestamp)
           = toDateString(messages[Len(messages) - 1].timestamp))
    => LET stored == messages[Len(messages)]
       IN  /\ "isNewDay" \in DOMAIN stored => stored.isNewDay = FALSE
           /\ "dateLabel" \notin DOMAIN stored

\* the label of a date by the calendar: read against the local date at `at`
LabelAgainst(date, at) ==
    IF toDateString(date) = toDateString(at) THEN <<"Today">>
    ELSE IF toDateString(date) = toDateString(at) - 1 THEN <<"Yesterday">>
    ELSE toLocaleDateString(date)

\* C16: formatDateLabel(d) is "Today" exactly for the current local date,
\* "Yesterday" exactly for the calendar day before it, and the formatted
\* date otherwise.
C16_DateLabel ==
    lastEvent.op = "formatDateLabel"
    => lastEvent.result = LabelAgainst(lastEvent.date, lastEvent.at)

\* C17: no step changes time, isNewDay or dateLabel of a message that is
\* already stored, whatever the clock has done since.
C17_DerivedFieldsFixed ==
    [][ \A i \in 1..Len(messages) :
          /\ i <= Len(messages')
          /\ messages'[i].time = messages[i].time
          /\ \A f \in {"isNewDay", "dateLabel"} :
                /\ (f \in DOMAIN messages'[i]) = (f \in DOMAIN messages[i])
                /\ f \in DOMAIN messages[i] => messages'[i][f] = messages[i][f]
      ]_vars

\* a message labelled "Today" two days ago, still so after a later append
C17_Witness ==
    /\ Len(messages) = 2
    /\ messages[1].dateLabel = <<"Today">>
    /\ toDateString(now) > toDateString(messages[1].timestamp) + 1
    /\ toDateString(messages[2].timestamp) = toDateString(now)

\* C18: formatTime(date) is the five characters HH:MM, HH the local hour
\* 00..23 and MM the minute 00..59, both zero-padded.
C18_FormatTime ==
    lastEvent.op = "formatTime"
    => \E h \in 0..23, m \in 0..59 :
          /\ h = getHours(lastEvent.date)
          /\ m = getMinutes(lastEvent.date)
          /\ Len(lastEvent.result) = 5
          /\ lastEvent.result =
                <<Digit(h \div 10), Digit(h % 10), ":",
                  Digit(m \div 10), Digit(m % 10)>>

\* 09:05 on the day after the clock was set back
C18_Witness ==
    /\ lastEvent.op = "formatTime"
    /\ lastEvent.date >= FallBackAt
    /\ lastEvent.result = <<"0", "9", ":", "0", "5">>

\* a failure that is an HTTP error response, its payload being what came
\* back from the server and not a client-side ErrorEvent
IsErrorResponse(e) ==
    /\ e.op = "gatewayError"
    /\ e.error.name = "HttpErrorResponse"
    /\ e.error.error.type # "ErrorEvent"

UnreachableMessage ==
    "Unable to reach the server. Please ensure the backend is running."
ClientNetworkMessage ==
    "Unable to connect to the server. Please check your connection."

IsHttpFailure(e) == e.op = "gatewayError" /\ e.error.name = "HttpErrorResponse"

\* C21 as stated: every failure with status 0 gets the Unreachable message
\* and every failure with an ErrorEvent payload the ClientNetwork message.
C21_TransportCategories ==
    IsHttpFailure(lastEvent)
    => /\ lastEvent.error.status = 0 => lastEvent.message = UnreachableMessage
       /\ lastEvent.error.error.type = "ErrorEvent"
             => lastEvent.message = ClientNetworkMessage

\* C21, amended: a failure with an ErrorEvent payload gets the ClientNetwork
\* message whatever its status; a failure with status 0 and any other
\* payload gets the Unreachable message.
C21_TransportCategoriesByPayload ==
    IsHttpFailure(lastEvent)
    => /\ lastEvent.error.error.type = "ErrorEvent"
             => lastEvent.message = ClientNetworkMessage
       /\ (lastEvent.error.status = 0 /\ lastEvent.error.error.type # "ErrorEvent")
             => lastEvent.message = UnreachableMessage

\* an ErrorEvent reported with status 0
C21_Witness ==
    /\ lastEvent.op = "gatewayError"
    /\ lastEvent.error = HttpErrorResponse(0, ErrorEvent)
    /\ lastEvent.message = ClientNetworkMessage

\* C22: a call still unanswered 30 seconds after it was issued can only end
\* as the failure "Request timed out. Please try again." (and it can end so);
\* no reply and no other failure is delivered for it from then on, and the
\* timeout is not raised before the 30 seconds are over.
C22_TimeoutBound ==
    /\ \A i \in 1..Len(inflight) :
          now >= inflight[i].issuedAt + TimeoutMs => ENABLED GatewayTimeout(i)
    /\ lastEvent.op \in {"gatewayNext", "gatewayError"} =>
          LET late == lastEvent.at >= lastEvent.request.issuedAt + TimeoutMs
              timedOut == /\ lastEvent.op = "gatewayError"
                          /\ lastEvent.error = TimeoutError
          IN  /\ late = timedOut
              /\ timedOut =>
                    lastEvent.message = "Request timed out. Please try again."

\* a call abandoned exactly 30 seconds after it was issued
C22_Witness ==
    /\ lastEvent.op = "gatewayError"
    /\ lastEvent.error = TimeoutError
    /\ lastEvent.at = lastEvent.request.issuedAt + TimeoutMs
    /\ inflight = <<>>

\* the category of a raw failure, by the first condition of the gateway's
\* table that it meets
CategoryOf(raw) ==
    IF raw.name = "TimeoutError" THEN "Timeout"
    ELSE IF raw.name # "HttpErrorResponse" THEN "Unknown"
    ELSE IF raw.error.type = "ErrorEvent" THEN "ClientNetwork"
    ELSE IF raw.status = 0 THEN "Unreachable"
    ELSE IF raw.status \in 400..499 THEN "ClientError"
    ELSE IF raw.status >= 500 THEN "ServerError"
    ELSE "Unknown"

\* the fixed message of a category; ClientError has the server's text instead
\* when there is one
FixedMessage(category) ==
    CASE category = "Timeout" -> "Request timed out. Please try again."
      [] category = "ClientNetwork" -> ClientNetworkMessage
      [] category = "Unreachable" -> UnreachableMessage
      [] category = "ClientError" -> "Invalid request. Please try again."
      [] category = "ServerError" -> "Server error. Please try again later."
      [] category = "Unknown" -> DefaultErrorMessage

\* C23: a failing call ends in one classified failure: the call leaves the
\* outstanding ones, and what is delivered is the message of the failure's
\* category (for ClientError possibly the server's own text), never the raw
\* error; a non-HTTP error and an HTTP error with a status in 1..399 give
\* "An unexpected error occurred. Please try again.".
C23_EveryFailureClassified ==
    [][ (lastEvent'.op = "gatewayError") =>
          LET raw == lastEvent'.error
              category == CategoryOf(raw)
          IN  /\ Len(inflight') = Len(inflight) - 1
              /\ \/ lastEvent'.message = FixedMessage(category)
                 \/ /\ category = "ClientError"
                    /\ raw.error.type = "json"
                    /\ "error" \in DOMAIN raw.error.body
                    /\ lastEvent'.message = raw.error.body.error
              /\ ( \/ raw.name \notin {"TimeoutError", "HttpErrorResponse"}
                   \/ /\ raw.name = "HttpErrorResponse"
                      /\ raw.error.type # "ErrorEvent"
                      /\ raw.status \in 1..399 )
                 => lastEvent'.message = DefaultErrorMessage
      ]_vars

\* a redirect status that no branch names
C23_Witness ==
    /\ lastEvent.op = "gatewayError"
    /\ lastEvent.error = HttpErrorResponse(302, TextBody)
    /\ lastEvent.message = DefaultErrorMessage

\* C24: only a response that carries a `response` text reaches the manager
\* as a reply.
C24_ReplyOnlyWhenWellFormed ==
    lastEvent.op = "reply"
    => /\ "response" \in DOMAIN lastEvent.body
       /\ lastEvent.body.response # Undefined

\* the records of console that the gateway wrote
ServiceLog(con) == SelectSeq(con, LAMBDA r : r.label = "Chat service error:")

\* C25: a failing call adds one gateway record to the console, carrying the
\* raw error object, and that record stands before whatever the delivery of
\* the classified failure writes; there are as many gateway records as
\* failures delivered.
C25_LoggedOnceBeforeDelivery ==
    [][ (lastEvent'.op = "failure") =>
          LET raw == lastEvent'.error
              added == SubSeq(console', Len(console) + 1, Len(console'))
          IN  /\ SubSeq(console', 1, Len(console)) = console
              /\ Len(ServiceLog(added)) = 1
              /\ added[1] = [label |-> "Chat service error:", error |-> raw]
              /\ Len(notifications') = Len(notifications) + 1
              /\ Len(ServiceLog(console')) = Len(notifications')
      ]_vars

\* two failures of different kinds, each logged with its own raw error
C25_Witness ==
    /\ lastEvent.op = "failure"
    /\ Len(ServiceLog(console)) = 2
    /\ ServiceLog(console)[1].error = TimeoutError
    /\ ServiceLog(console)[2].error = HttpErrorResponse(0, ProgressEvent)

\* C26: a request is issued only in the step that invokes the gateway's
\* sendMessage, and that step issues exactly one; every other step, a
\* failure or a timeout included, leaves the outstanding requests as they
\* are or takes one away.
C26_OneCallPerInvocation ==
    [][ /\ (calls' # calls) =>
              /\ Len(calls') = Len(calls) + 1
              /\ Len(inflight') = Len(inflight) + 1
              /\ SubSeq(inflight', 1, Len(inflight)) = inflight
        /\ (calls' = calls) =>
              \/ inflight' = inflight
              \/ \E i \in 1..Len(inflight) : inflight' = RemoveAt(inflight, i)
      ]_vars

\* the one call made has failed and nothing is outstanding
C26_Witness ==
    /\ lastEvent.op = "gatewayError"
    /\ lastEvent.error = HttpErrorResponse(503, NullBody)
    /\ Len(calls) = 1
    /\ inflight = <<>>

\* C27: the request issued for sendMessage(message, sessionId) is a POST to
\* /api/chat under the API's base URL, with Content-Type application/json
\* and the body {message: message, session_id: sessionId}, both as given.
C27_RequestShape ==
    [][ (calls' # calls) =>
          LET call == calls'[Len(calls')]
              request == inflight'[Len(inflight')]
          IN  /\ request.method = "POST"
              /\ request.url = "/api/chat"
              /\ request.contentType = "application/json"
              /\ request.body = [message |-> call.message,
                                 session_id |-> call.sessionId]
      ]_vars

\* a message with blanks around it and a session id of the caller's own
C27_Witness ==
    /\ Len(inflight) = 1
    /\ inflight[1].body = [message |-> <<" ", "a", " ">>, session_id |-> <<"s">>]
    /\ calls[1] = [message |-> <<" ", "a", " ">>, sessionId |-> <<"s">>]

\* C28 as stated: every new instance of the manager has a session
\* identifier different from the one of the instance before it.
C28_NewInstanceNewSession ==
    [][ (lastEvent'.op \in {"reload", "newComponent"}) => sessionId' # sessionId
      ]_vars

\* C28, amended: an instance created by a new start of the application has
\* an identifier that crypto.randomUUID() had not returned before, so one
\* that no earlier instance had; an instance created under the same root
\* injector has the identifier of the instance before it.
C28_NewServiceNewSession ==
    [][ /\ (lastEvent'.op = "reload") =>
              /\ sessionId' # sessionId
              /\ sessionId[2] <= uuids
              /\ sessionId'[2] > uuids
              /\ sessionId' = svcSessionId'
        /\ (lastEvent'.op = "newComponent") =>
              /\ sessionId' = sessionId
              /\ sessionId' = svcSessionId'
      ]_vars

\* a call made after a reload, under the identifier of the new start
C28_Witness ==
    /\ initialized
    /\ sessionId # RandomUUID(1)
    /\ Len(calls) = 1
    /\ calls[1].sessionId = sessionId
    /\ inflight # <<>>

\* C29: handleError(error) raises one notification, of severity 'error',
\* summary 'Error', life 5000 and with error.message as its detail, or the
\* default text when that is missing or empty; it writes one console record
\* with the error object itself; it leaves messages and the input buffer
\* alone.
C29_HandleError ==
    [][ (lastEvent'.op = "handleError") =>
          LET error == lastEvent'.error
              detail == IF "message" \in DOMAIN error /\ error.message # ""
                        THEN error.message
                        ELSE "An unexpected error occurred. Please try again."
          IN  /\ notifications' =
                    Append(notifications,
                           [severity |-> "error", summary |-> "Error",
                            detail |-> detail, life |-> 5000])
              /\ console' =
                    Append(console,
                           [label |-> "Chat component error:", error |-> error])
              /\ messages' = messages
              /\ messageText' = messageText
      ]_vars

\* an error without a message, handled while there is history and input
C29_Witness ==
    /\ lastEvent.op = "handleError"
    /\ lastEvent.error = EmptyObject
    /\ notifications[Len(notifications)].detail = DefaultErrorMessage
    /\ messages # <<>>
    /\ messageText # <<>>

\* C30: a state with isSending = true is followed by one with isSending
\* and isTyping both false, provided every call gets its outcome.
C30_EventuallyIdle ==
    isSending ~> (~isSending /\ ~isTyping)

\* C31: onEnterKey with Shift held changes nothing and leaves the key's
\* default action in place; without Shift it does what sendMessage() does:
\* when canSend() holds it issues one gateway call, appends the 'user'
\* message, clears the input and sets both flags, and otherwise it changes
\* nothing, so Enter during a pending call adds neither a call nor a message.
C31_EnterKey ==
    [][ (lastEvent'.op = "onEnterKey") =>
          IF lastEvent'.shiftKey
          THEN /\ ~lastEvent'.defaultPrevented
               /\ UNCHANGED <<messages, messageText, isTyping, isSending,
                              sessionId, inflight, calls, notifications>>
          ELSE /\ lastEvent'.defaultPrevented
               /\ (calls' # calls) <=> canSend
               /\ canSend =>
                     /\ calls' = Append(calls, [message |-> Trim(messageText),
                                                sessionId |-> sessionId])
                     /\ Len(inflight') = Len(inflight) + 1
                     /\ Len(messages') = Len(messages) + 1
                     /\ messages'[Len(messages')].senderId = "user"
                     /\ messages'[Len(messages')].content = Trim(messageText)
                     /\ messageText' = <<>>
                     /\ isSending' /\ isTyping'
               /\ ~canSend =>
                     UNCHANGED <<messages, messageText, isTyping, isSending,
                                 inflight, calls, notifications>>
               /\ isSending =>
                     (calls' = calls /\ inflight' = inflight /\ messages' = messages)
      ]_vars

\* Enter pressed on a non-blank input while the call of an earlier Enter is
\* pending: still one call and one message
C31_Witness ==
    /\ lastEvent.op = "onEnterKey"
    /\ ~lastEvent.shiftKey
    /\ ~IsBlank(lastEvent.text)
    /\ messageText = lastEvent.text
    /\ isSending
    /\ Len(calls) = 1
    /\ Len(inflight) = 1
    /\ Len(messages) = 1

\* C32: the message of a failure is a function of the raw error alone, found
\* by the first test that applies, in this order: TimeoutError; ErrorEvent
\* payload of an HTTP error, whatever the status; status 0; status 400..499
\* (the body's error text, or the fixed text); status 500 and more.
C32_Precedence ==
    (lastEvent.op = "gatewayError") =>
        LET raw == lastEvent.error
            expected ==
                IF raw.name = "TimeoutError"
                THEN "Request timed out. Please try again."
                ELSE IF raw.name # "HttpErrorResponse"
                THEN DefaultErrorMessage
                ELSE IF raw.error.type = "ErrorEvent" THEN ClientNetworkMessage
                ELSE IF raw.status = 0 THEN UnreachableMessage
                ELSE IF raw.status >= 400 /\ raw.status < 500
                THEN IF /\ raw.error.type = "json"
                        /\ "error" \in DOMAIN raw.error.body
                        /\ raw.error.body.error # ""
                     THEN raw.error.body.error
                     ELSE "Invalid request. Please try again."
                ELSE IF raw.status >= 500
                THEN "Server error. Please try again later."
                ELSE DefaultErrorMessage
        IN  lastEvent.message = expected

\* an ErrorEvent reported with a server status: ClientNetwork wins
C32_Witness ==
    /\ lastEvent.op = "gatewayError"
    /\ lastEvent.error = HttpErrorResponse(500, ErrorEvent)
    /\ lastEvent.message = ClientNetworkMessage
    /\ console[Len(console)].error = lastEvent.error

CountSender(msgs, sender) ==
    Cardinality({ i \in 1..Len(msgs) : msgs[i].senderId = sender })

\* C34: the 'user' messages are as many as the gateway calls issued, and as
\* many as the 'ai' messages plus the error notifications plus one for a
\* call that is outstanding: every submission is pending, answered or
\* reported as failed, and only one of the three.
C34_Accounting ==
    /\ CountSender(messages, "user") = Len(calls)
    /\ Len(calls) = CountSender(messages, "ai") + Len(notifications)
                        + (IF inflight # <<>> THEN 1 ELSE 0)

\* the positions whose message and successor are both 'user' messages
UserPairs(msgs) ==
    { i \in 1..(Len(msgs) - 1) :
        msgs[i].senderId = "user" /\ msgs[i + 1].senderId = "user" }

\* C35: every 'ai' message stands right behind a 'user' message; while
\* isSending is true the last message is the 'user' message of the latest
\* submission, the one of the outstanding request when there is one; and
\* there are no more pairs of adjacent 'user' messages than failures
\* reported.
C35_Alternation ==
    /\ \A j \in 1..Len(messages) :
          messages[j].senderId = "ai" =>
              (j > 1 /\ messages[j - 1].senderId = "user")
    /\ isSending =>
          /\ messages # <<>>
          /\ messages[Len(messages)].senderId = "user"
          /\ messages[Len(messages)].content = calls[Len(calls)].message
          /\ inflight # <<>> =>
                messages[Len(messages)].content = inflight[1].body.message
    /\ Cardinality(UserPairs(messages)) <= Len(notifications)

\* a second submission pending right behind the message of a failed one
C35_Witness ==
    /\ isSending
    /\ Len(inflight) = 1
    /\ Len(messages) = 2
    /\ UserPairs(messages) = {1}
    /\ Len(notifications) = 1

\* C36: the step that resolves a call, by reply or by failure, leaves
\* messageText as it found it: what was typed during the call stays, and the
\* text of a failed submission does not come back.
C36_ResolutionKeepsInput ==
    [][ (lastEvent'.op \in {"reply", "failure"}) =>
          /\ messageText' = messageText
          /\ Len(inflight') = Len(inflight) - 1
      ]_vars

\* "a" was submitted, "a a" typed during the call, and the call has failed
C36_Witness ==
    /\ lastEvent.op = "failure"
    /\ Len(messages) = 1
    /\ messages[1].content = <<"a">>
    /\ messageText = <<"a", " ", "a">>
    /\ ~isSending

\* C37: the time string of every stored message is formatTime of the
\* message's own timestamp.
C37_TimeOfOwnTimestamp ==
    \A i \in 1..Len(messages) :
        messages[i].time = formatTime(messages[i].timestamp)

\* C38: the identifier stored in the service is the one its constructor
\* generated, whatever calls of getSessionId(), generateSessionId() and
\* sendMessage() have been made; getSessionId() returns it, and
\* generateSessionId() returns another value without storing it.
C38_SessionIdFixed ==
    /\ svcSessionId = RandomUUID(1)
    /\ lastEvent.op = "getSessionId" => lastEvent.result = RandomUUID(1)
    /\ lastEvent.op = "generateSessionId" => lastEvent.result # svcSessionId

\* getSessionId() after two calls of generateSessionId() and a sendMessage
\* under the identifier generated last
C38_Witness ==
    /\ lastEvent.op = "getSessionId"
    /\ lastEvent.result = RandomUUID(1)
    /\ uuids = 3
    /\ Len(calls) = 1
    /\ calls[1].sessionId = RandomUUID(3)

\* the request of the latest load for a resource is still outstanding
LatestOutstanding(panel, resource) ==
    [resource |-> resource, load |-> panel.loads] \in panel.requests

\* C39: while the request that the latest load made for a resource is
\* outstanding, the resource's loading flag is true, and a step that leaves
\* that request outstanding does not change the resource's data.
C39_LatestLoadOwnsFlag ==
    [][ \A r \in Resources :
          LatestOutstanding(dataPanel', r) =>
              /\ dataPanel'.loading[r]
              /\ LatestOutstanding(dataPanel, r) => dataPanel'[r] = dataPanel[r]
      ]_vars

====
